---------------------------- MODULE Spec2Model ----------------------------
(***************************************************************************)
(* LocalAI-Speech: the voice assistant of ai-response-speech.py            *)
(* (GPT4AllVoiceAssistant and main) and the typed loop of                  *)
(* gpt4all_speech.py.  The programs are sequential; every blocking call to *)
(* the operator (input) or to a collaborator (microphone, transcription,   *)
(* completion API, speech synthesis) draws its outcome from a small set.   *)
(***************************************************************************)
EXTENDS Integers, Sequences, FiniteSets, TLC

\* ------------------------------------------------------------------ bounds

\* Largest number of audio input devices the host enumerates.
MaxDevices == 2

\* ------------------------------------------------------------ text helpers

\* Typed or recognized text is a sequence of one-character strings.
Digits == {"0", "1", "2", "3", "4", "5", "6", "7", "8", "9"}

DigitVal ==
  ("0" :> 0) @@ ("1" :> 1) @@ ("2" :> 2) @@ ("3" :> 3) @@ ("4" :> 4) @@
  ("5" :> 5) @@ ("6" :> 6) @@ ("7" :> 7) @@ ("8" :> 8) @@ ("9" :> 9)

RECURSIVE LStrip(_)
LStrip(s) ==
  IF s # <<>> /\ Head(s) = " " THEN LStrip(Tail(s)) ELSE s

RECURSIVE RStrip(_)
RStrip(s) ==
  IF s # <<>> /\ s[Len(s)] = " " THEN RStrip(SubSeq(s, 1, Len(s) - 1)) ELSE s

Strip(s) == RStrip(LStrip(s))

RECURSIVE DigitsValue(_)
DigitsValue(ds) ==
  IF ds = <<>> THEN 0
  ELSE 10 * DigitsValue(SubSeq(ds, 1, Len(ds) - 1)) + DigitVal[ds[Len(ds)]]

AllDigits(ds) == ds # <<>> /\ \A k \in 1..Len(ds) : ds[k] \in Digits

\* int(text): surrounding blanks are dropped, one sign is accepted, the rest
\* must be decimal digits; anything else raises ValueError (ok = FALSE).
ParseInt(text) ==
  LET t == Strip(text)
      signed == t # <<>> /\ Head(t) \in {"-", "+"}
      ds == IF signed THEN Tail(t) ELSE t
  IN  IF AllDigits(ds)
      THEN [ok |-> TRUE,
            value |-> IF signed /\ Head(t) = "-" THEN 0 - DigitsValue(ds)
                      ELSE DigitsValue(ds)]
      ELSE [ok |-> FALSE, value |-> 0]

UpperCase ==
  <<"A", "B", "C", "D", "E", "F", "G", "H", "I", "J", "K", "L", "M",
    "N", "O", "P", "Q", "R", "S", "T", "U", "V", "W", "X", "Y", "Z">>

LowerCase ==
  <<"a", "b", "c", "d", "e", "f", "g", "h", "i", "j", "k", "l", "m",
    "n", "o", "p", "q", "r", "s", "t", "u", "v", "w", "x", "y", "z">>

LowerChar(c) ==
  IF \E k \in 1..Len(UpperCase) : UpperCase[k] = c
  THEN LowerCase[CHOOSE k \in 1..Len(UpperCase) : UpperCase[k] = c]
  ELSE c

\* str.lower()
Lower(s) == [k \in 1..Len(s) |-> LowerChar(s[k])]

\* ------------------------------------------------------------ device layer

\* self.microphone: absent, sr.Microphone() or sr.Microphone(device_index=i).
MicUnset == [kind |-> "unset", index |-> 0]
MicDefault == [kind |-> "default", index |-> 0]
MicIndex(i) == [kind |-> "index", index |-> i]

Ev(what, dev) == [e |-> what, dev |-> dev]

\* Variant: open and close written out by hand, the close skipped when the
\* body raises.
WithSourceNoFinally(dev, body) ==
  IF body # <<>> /\ body[Len(body)].e = "raise"
  THEN <<Ev("open", dev)>> \o body
  ELSE <<Ev("open", dev)>> \o body \o <<Ev("close", dev)>>

\* `with microphone as source: <body>`: the stream is opened on entry and
\* closed on exit, whether the body completes, returns or raises.  A body
\* that lets an exception escape ends with a "raise" event.
WithSource(dev, body) ==
  <<Ev("open", dev)>> \o body \o <<Ev("close", dev)>>

\* What the collaborators can do to a quick probe and to a full capture.
BasicOutcomes == {"ok", "open_error", "calibrate_error"}

ExtOutcomes ==
  {"open_oserror", "open_error", "calibrate_error", "listen_timeout",
   "listen_error", "unknown_value", "request_error", "text"}

\* One iteration of the loop of get_valid_audio_sources (and of
\* list_all_audio_sources): construct, enter, adjust_for_ambient_noise(0.1);
\* any exception marks the device unusable and the loop goes on.
BasicProbe(i, outcome) ==
  [usable |-> outcome = "ok",
   events |-> IF outcome = "open_error" THEN <<>>
              ELSE WithSource(MicIndex(i),
                     IF outcome = "ok" THEN <<Ev("calibrate", MicIndex(i))>>
                     ELSE <<Ev("calibrate", MicIndex(i)), Ev("raise", MicIndex(i))>>)]

\* The for loop of get_valid_audio_sources from device k on (0-based), acc
\* holding what the earlier iterations did; outcomes maps each device index
\* to what its probe meets.
RECURSIVE ProbeFrom(_, _, _, _)
ProbeFrom(names, outcomes, k, acc) ==
  IF k >= Len(names) THEN acc
  ELSE ProbeFrom(names, outcomes, k + 1,
         [raised |-> FALSE,
          valid |-> IF BasicProbe(k, outcomes[k]).usable
                    THEN Append(acc.valid, k) ELSE acc.valid,
          unusable |-> IF BasicProbe(k, outcomes[k]).usable
                       THEN acc.unusable ELSE Append(acc.unusable, k),
          events |-> acc.events \o BasicProbe(k, outcomes[k]).events])

NoProbes == [raised |-> FALSE, valid |-> <<>>, unusable |-> <<>>, events |-> <<>>]

\* get_valid_audio_sources: the enumeration is outside the try.
GetValidAudioSources(names, enumOk, outcomes) ==
  IF ~enumOk THEN [NoProbes EXCEPT !.raised = TRUE]
  ELSE ProbeFrom(names, outcomes, 0, NoProbes)

\* list_all_audio_sources: the same probe, printing a status per device.
ListAllAudioSources(names, enumOk, outcomes) ==
  IF ~enumOk THEN [NoProbes EXCEPT !.raised = TRUE]
  ELSE ProbeFrom(names, outcomes, 0, NoProbes)

\* sr.Microphone(device_index=i) asserts 0 <= i < count: an index the host
\* does not have can only fail to open.
OpenOutcome(names, i, outcome) ==
  IF i < 0 \/ i >= Len(names) THEN "open_error" ELSE outcome

\* Variant: timeout and no-match share one message.
ProbeReportMerged(outcome) ==
  CASE outcome = "text" -> [ret |-> "true", diag |-> "recognized"]
    [] outcome \in {"unknown_value", "listen_timeout"} ->
         [ret |-> "false", diag |-> "unrecognized"]
    [] outcome = "open_oserror" -> [ret |-> "false", diag |-> "device_error"]
    [] OTHER -> [ret |-> "false", diag |-> "error"]

\* What test_audio_source prints and returns for each way its try block can
\* end: the two inner handlers, the success path, and the outer handlers
\* for OSError and for any other exception.
ProbeReport(outcome) ==
  CASE outcome = "text" -> [ret |-> "true", diag |-> "recognized"]
    [] outcome = "unknown_value" -> [ret |-> "false", diag |-> "unrecognized"]
    [] outcome = "listen_timeout" -> [ret |-> "false", diag |-> "no_audio"]
    [] outcome = "open_oserror" -> [ret |-> "false", diag |-> "device_error"]
    [] OTHER -> [ret |-> "false", diag |-> "error"]

\* The device side of a capture on dev: what happens inside the with block
\* before the outcome ends it.
CaptureEvents(dev, outcome) ==
  LET cal == <<Ev("calibrate", dev)>>
      lis == cal \o <<Ev("listen", dev)>>
      rec == lis \o <<Ev("recognize", dev)>>
      esc == <<Ev("raise", dev)>>
  IN  CASE outcome \in {"open_oserror", "open_error"} -> <<>>
        [] outcome = "calibrate_error" -> WithSource(dev, cal \o esc)
        [] outcome = "listen_timeout" -> WithSource(dev, lis)
        [] outcome = "listen_error" -> WithSource(dev, lis \o esc)
        [] outcome = "request_error" -> WithSource(dev, rec \o esc)
        [] outcome \in {"unknown_value", "text"} -> WithSource(dev, rec)

\* The try block of test_audio_source: open, adjust_for_ambient_noise(1),
\* listen(timeout), recognize_google, and the handlers around them.
ExtendedProbe(i, outcome) ==
  [ret |-> ProbeReport(outcome).ret, diag |-> ProbeReport(outcome).diag,
   met |-> outcome, events |-> CaptureEvents(MicIndex(i), outcome)]

\* names[device_index] with Python's indexing: negative indices count from
\* the end, anything outside [-len, len) raises IndexError.
PyIndexable(names, i) == 0 - Len(names) <= i /\ i < Len(names)

\* test_audio_source(device_index).  enumFail names the call of
\* list_microphone_names that fails (0: none, 1: the range check, 2: the
\* name lookup); both calls are outside the try.
TestAudioSource(names, device_index, enumFail, outcome) ==
  IF enumFail = 1
  THEN [ret |-> "raise", diag |-> "enumeration", met |-> "none", events |-> <<>>]
  ELSE IF device_index >= Len(names)
  THEN [ret |-> "false", diag |-> "out_of_range", met |-> "none", events |-> <<>>]
  ELSE IF enumFail = 2
  THEN [ret |-> "raise", diag |-> "enumeration", met |-> "none", events |-> <<>>]
  ELSE IF ~PyIndexable(names, device_index)
  THEN [ret |-> "raise", diag |-> "IndexError", met |-> "none", events |-> <<>>]
  ELSE ExtendedProbe(device_index, OpenOutcome(names, device_index, outcome))

\* What listen prints: its inner handlers (no match, service error,
\* timeout), the success path, and the outer handler for anything else.
ListenReport(outcome) ==
  CASE outcome = "text" -> "heard"
    [] outcome = "unknown_value" -> "not_understood"
    [] outcome = "request_error" -> "request_failed"
    [] outcome = "listen_timeout" -> "no_speech"
    [] OTHER -> "listen_error"

\* Variant: every call opens the default device.
ListenFreshDefault(mic, defaultOk, outcome, heard) ==
  IF ~defaultOk
  THEN [ret |-> "raise", text |-> <<>>, diag |-> "default_device",
        events |-> <<>>, mic |-> mic]
  ELSE
    [ret |-> "text",
     text |-> IF outcome = "text" THEN heard ELSE <<>>,
     diag |-> ListenReport(outcome),
     events |-> IF outcome = "request_error"
                THEN CaptureEvents(MicDefault, "unknown_value")
                ELSE CaptureEvents(MicDefault, outcome),
     mic |-> MicDefault]

\* listen(): installs the default device when none is set (outside the
\* try), then captures and transcribes; every failure inside the try yields
\* the empty string.
Listen(mic, defaultOk, outcome, heard) ==
  IF mic = MicUnset /\ ~defaultOk
  THEN [ret |-> "raise", text |-> <<>>, diag |-> "default_device",
        events |-> <<>>, mic |-> mic]
  ELSE
    LET dev == IF mic = MicUnset THEN MicDefault ELSE mic
    IN  [ret |-> "text",
         text |-> IF outcome = "text" THEN heard ELSE <<>>,
         diag |-> ListenReport(outcome),
         events |-> IF outcome = "request_error"
                    THEN CaptureEvents(dev, "unknown_value")
                    ELSE CaptureEvents(dev, outcome),
         mic |-> dev]

\* ------------------------------------------------------- find_stereo_mix

Contains(s, sub) ==
  \E k \in 0..(Len(s) - Len(sub)) : SubSeq(s, k + 1, k + Len(sub)) = sub

potential_sources ==
  << <<"S","t","e","r","e","o"," ","M","i","x">>,
     <<"S","t","e","r","e","o">>,
     <<"M","i","x","e","d">>,
     <<"M","i","x">>,
     <<"W","h","a","t"," ","U"," ","H","e","a","r">>,
     <<"W","h","a","t"," ","Y","o","u"," ","H","e","a","r">>,
     <<"S","p","e","a","k","e","r","s">>,
     <<"O","u","t","p","u","t">> >>

IsPotentialSource(name) ==
  \E k \in 1..Len(potential_sources) :
    Contains(Lower(name), Lower(potential_sources[k]))

\* Variant: the pairs are numbered from one.
RECURSIVE FoundFromOneBased(_, _)
FoundFromOneBased(names, k) ==
  IF k >= Len(names) THEN <<>>
  ELSE (IF IsPotentialSource(names[k + 1]) THEN << <<k + 1, names[k + 1]>> >> ELSE <<>>)
       \o FoundFromOneBased(names, k + 1)

\* The enumerate loop of find_stereo_mix from device k on (0-based).
RECURSIVE FoundFrom(_, _)
FoundFrom(names, k) ==
  IF k >= Len(names) THEN <<>>
  ELSE (IF IsPotentialSource(names[k + 1]) THEN << <<k, names[k + 1]>> >> ELSE <<>>)
       \o FoundFrom(names, k + 1)

\* find_stereo_mix(): the (index, name) pairs whose name holds an alias.
FindStereoMix(names, enumOk) ==
  IF ~enumOk THEN [raised |-> TRUE, found |-> <<>>]
  ELSE [raised |-> FALSE, found |-> FoundFrom(names, 0)]

\* ------------------------------------------- completion API and synthesis

HealthOutcomes == {"200", "404", "500", "connect_error"}

\* Variant: a failed health check is reported as False instead of raised.
CheckServerConnectionLenient(outcome) ==
  IF outcome = "200" THEN "true" ELSE "false"

\* _check_server_connection (both modules): True on 200, ConnectionError
\* on any other status and on a failed request.
CheckServerConnection(outcome) ==
  IF outcome = "200" THEN "true" ELSE "raise"

ApiOutcomes == {"200", "500", "connect_error", "bad_body"}

\* Variant: a failed request returns an error text instead of raising.
GenerateResponseErrorText(outcome) ==
  [posts |-> 1, ret |-> IF outcome = "200" THEN "reply" ELSE "error text"]

\* generate_response: one POST; the reply on 200, an
\* exception otherwise (also when the 200 body lacks the expected fields).
GenerateResponse(outcome) ==
  [posts |-> 1, ret |-> IF outcome = "200" THEN "reply" ELSE "raise"]

\* GPT4AllSpeechModule.generate_text: the same request and error policy.
GenerateText(outcome) ==
  [posts |-> 1, ret |-> IF outcome = "200" THEN "reply" ELSE "raise"]

\* GPT4AllVoiceAssistant.speak: say + runAndWait inside a try.
Speak(text, engineOk) ==
  [ret |-> "none", said |-> <<text>>,
   out |-> IF engineOk THEN <<>> ELSE <<"speak_failed">>]

Platforms == {"Darwin", "Windows", "Linux", "Other"}

\* What can happen to one GPT4AllSpeechModule.speak: the temporary file
\* cannot be created; the synthesis command raises (it is missing) or exits
\* with a failure status; the player raises or exits with a failure status.
\* SAPI has no exit status and returns no file to play; an unknown platform
\* runs no command at all.
SpeechOutcomes(platform) ==
  CASE platform \in {"Darwin", "Linux"} ->
         {"ok", "tts_raise", "tts_exit", "play_raise", "play_exit",
          "tempfile_error"}
    [] platform = "Windows" -> {"ok", "tts_raise", "tempfile_error"}
    [] OTHER -> {"ok", "tempfile_error"}

\* _fallback_tts: say / SAPI / espeak, each inside a try that logs and
\* returns ""; the status subprocess.call returns is dropped.  file: a
\* non-empty path is returned.
FallbackTts(text, platform, outcome) ==
  CASE platform \in {"Darwin", "Linux"} ->
         IF outcome = "tts_raise"
         THEN [file |-> FALSE, said |-> <<>>, out |-> <<"tts_failed">>]
         ELSE [file |-> TRUE, said |-> <<text>>, out |-> <<>>]
    [] platform = "Windows" ->
         IF outcome = "tts_raise"
         THEN [file |-> FALSE, said |-> <<>>, out |-> <<"tts_failed">>]
         ELSE [file |-> FALSE, said |-> <<text>>, out |-> <<>>]
    [] OTHER -> [file |-> FALSE, said |-> <<>>, out |-> <<>>]

\* _play_audio: afplay / playsound / aplay inside one try that logs.
PlayAudio(platform, outcome) ==
  IF platform \in {"Darwin", "Windows", "Linux"} /\ outcome = "play_raise"
  THEN <<"play_failed">> ELSE <<>>

\* GPT4AllSpeechModule.speak: text_to_speech, then playback of the file.
\* Creating the temporary file is outside every try.
ScriptSpeak(text, platform, outcome) ==
  IF outcome = "tempfile_error"
  THEN [ret |-> "raise", said |-> <<>>, out |-> <<>>]
  ELSE LET t == FallbackTts(text, platform, outcome)
       IN  [ret |-> "none", said |-> t.said,
            out |-> t.out \o (IF t.file THEN PlayAudio(platform, outcome)
                              ELSE <<>>)]

QuitWords ==
  { <<"q","u","i","t">>, <<"e","x","i","t">>, <<"b","y","e">> }

\* user_input.lower() in ['quit', 'exit', 'bye']
IsQuit(user_input) == Lower(user_input) \in QuitWords

\* ------------------------------------------------------- source selector

InSeq(x, s) == \E k \in 1..Len(s) : s[k] = x

\* Variant: the index is checked against the length of the list only.
ReadIndexUpperBound(valid, typed) ==
  LET p == ParseInt(typed)
  IN  IF ~p.ok THEN [ok |-> FALSE, index |-> 0, out |-> "not_a_number"]
      ELSE IF p.value >= Len(valid)
      THEN [ok |-> FALSE, index |-> p.value, out |-> "invalid_index"]
      ELSE [ok |-> TRUE, index |-> p.value, out |-> "accepted"]

\* index = int(input(...)); if index not in [idx for idx, _ in valid_sources]
ReadIndex(valid, typed) ==
  LET p == ParseInt(typed)
  IN  IF ~p.ok THEN [ok |-> FALSE, index |-> 0, out |-> "not_a_number"]
      ELSE IF ~InSeq(p.value, valid)
      THEN [ok |-> FALSE, index |-> p.value, out |-> "invalid_index"]
      ELSE [ok |-> TRUE, index |-> p.value, out |-> "accepted"]

\* Option 3 from the index prompt on: only ValueError is caught.
TestOption(names, valid, typed, enumFail, outcome) ==
  LET i == ReadIndex(valid, typed)
  IN  IF ~i.ok
      THEN [ret |-> "none", index |-> i.index, tests |-> <<>>,
            out |-> <<i.out>>, events |-> <<>>]
      ELSE LET t == TestAudioSource(names, i.index, enumFail, outcome)
           IN  [ret |-> IF t.ret = "raise" THEN "raise" ELSE "none",
                index |-> i.index,
                tests |-> << [index |-> i.index, ret |-> t.ret, met |-> t.met,
                             diag |-> t.diag] >>,
                out |-> <<t.diag>>, events |-> t.events]

\* Variant: the source is accepted on bare index entry.
SelectVerdictBare(testRet) == "true"

\* if self.test_audio_source(index): return True / else: report and loop
SelectVerdict(testRet) == IF testRet = "true" THEN "true" ELSE "none"

\* Option 4 from the index prompt on.  ctorOk: sr.Microphone(device_index)
\* succeeds; enumFail: 1 the name lookup after the assignment, 2 and 3 the
\* two enumerations of test_audio_source.  Every exception is caught.
SelectOption(names, mic, wasValidated, valid, typed, ctorOk, enumFail, outcome) ==
  LET i == ReadIndex(valid, typed)
      keep == [ret |-> "none", index |-> i.index, tests |-> <<>>,
               out |-> <<>>, events |-> <<>>, mic |-> mic,
               validated |-> wasValidated]
  IN  IF ~i.ok THEN [keep EXCEPT !.out = <<i.out>>]
      ELSE IF ~ctorOk THEN [keep EXCEPT !.out = <<"error_setting_source">>]
      ELSE IF enumFail = 1
      THEN [keep EXCEPT !.out = <<"error_setting_source">>,
                        !.mic = MicIndex(i.index), !.validated = FALSE]
      ELSE LET t == TestAudioSource(names, i.index,
                      IF enumFail >= 2 THEN enumFail - 1 ELSE 0, outcome)
           IN  [ret |-> IF t.ret = "raise" THEN "none" ELSE SelectVerdict(t.ret),
                index |-> i.index,
                tests |-> << [index |-> i.index, ret |-> t.ret, met |-> t.met,
                             diag |-> t.diag] >>,
                out |-> IF t.ret = "raise" THEN <<t.diag, "error_setting_source">>
                        ELSE IF t.ret = "true" THEN <<"selected", t.diag>>
                        ELSE <<"selected", t.diag, "source_test_failed">>,
                events |-> t.events,
                mic |-> MicIndex(i.index),
                validated |-> t.ret = "true"]

\* ---------------------------------------------------------- session loops

\* run_interactive from the quit check on (lines 307-313).
Respond(user_input, api, engineOk) ==
  IF IsQuit(user_input)
  THEN LET s == Speak("Goodbye!", engineOk)
       IN  [done |-> TRUE, posts |-> 0, said |-> s.said, out |-> s.out,
            speech |-> IF engineOk THEN "ok" ELSE "engine_error"]
  ELSE LET g == GenerateResponse(api)
       IN  IF g.ret = "raise"
           THEN [done |-> FALSE, posts |-> g.posts, said |-> <<>>,
                 out |-> <<"Error">>, speech |-> "none"]
           ELSE LET s == Speak(g.ret, engineOk)
                IN  [done |-> FALSE, posts |-> g.posts, said |-> s.said,
                     out |-> s.out,
                     speech |-> IF engineOk THEN "ok" ELSE "engine_error"]

\* The loop body of gpt4all_speech.py (lines 129-143).
ScriptRespond(user_input, api, platform, speech) ==
  IF IsQuit(user_input)
  THEN [done |-> TRUE, posts |-> 0, said |-> <<>>, out |-> <<"Goodbye!">>,
        speech |-> "none"]
  ELSE LET g == GenerateText(api)
       IN  IF g.ret = "raise"
           THEN [done |-> FALSE, posts |-> g.posts, said |-> <<>>,
                 out |-> <<"Error">>, speech |-> "none"]
           ELSE LET s == ScriptSpeak(g.ret, platform, speech)
                IN  [done |-> FALSE, posts |-> g.posts, said |-> s.said,
                     out |-> <<"AI">> \o s.out \o
                             (IF s.ret = "raise" THEN <<"Error">> ELSE <<>>),
                     speech |-> speech]

\* ------------------------------------------------------------------ state

VARIABLES
  driver,         \* "main": main() of ai-response-speech.py; "script": the
                  \* __main__ block of gpt4all_speech.py; "client": code that
                  \* calls the assistant's methods in any order
  platform,       \* platform.system(), read by gpt4all_speech.py only
  names,          \* what list_microphone_names() returns
  pc,             \* where the program waits: "new", "idle", "menu",
                  \* "ask_test", "ask_select", "loop", "exit", "abort"
  voice,          \* voice_input of the running run_interactive
  microphone,     \* self.microphone
  validated,      \* SelectedSource.validated of the data model: the device in
                  \* self.microphone passed the probe of the pass that set it
  health,         \* outcome of the startup health check ("none" before it)
  valid_sources,  \* the local valid_sources of setup_audio_source; every
                  \* use follows an assignment in the same pass, so the
                  \* model clears it when an index prompt has been answered
  handles,        \* device handles open between two operations
  last            \* what the last step did

vars ==
  <<driver, platform, names, pc, voice, microphone, validated, health, valid_sources,
    handles, last>>

DeviceNames ==
  << <<"B","u","i","l","t","-","i","n"," ","M","i","c">>,
     <<"S","t","e","r","e","o"," ","M","i","x">>,
     <<"U","S","B"," ","A","u","d","i","o">>,
     <<"S","P","E","A","K","E","R","S">> >>

HostDevices(n) == [k \in 1..n |-> DeviceNames[((k - 1) % Len(DeviceNames)) + 1]]

\* The hosts considered: the first n devices of DeviceNames, and one host
\* whose output device is spelled in capitals.
Hosts ==
  {HostDevices(n) : n \in 0..MaxDevices} \cup {<<DeviceNames[4]>>}

Choices ==
  { <<"1">>, <<"2">>, <<"3">>, <<"4">>, <<"5">>, <<"6">>, <<>>, <<" ","4">> }

IndexInputs ==
  { <<"0">>, <<"1">>, <<"2">>, <<"5">>, <<"-","1">>, <<"-","3">>,
    <<" ","1">>, <<"x">>, <<>>, <<"1",".","5">> }

Utterances ==
  { <<"q","u","i","t">>, <<"Q","U","I","T">>, <<"E","x","i","t">>,
    <<"b","y","e">>, <<"q","u","i","t"," ">>, <<"h","i">> }

\* Indices a caller may hand to test_audio_source directly.
TestIndices == (0 - MaxDevices - 1)..(MaxDevices + 1)

NoStep ==
  [op |-> "none", choice |-> <<>>, typed |-> <<>>, index |-> 0,
   ret |-> "none", text |-> <<>>, events |-> <<>>, out |-> <<>>,
   tests |-> <<>>, probed |-> <<>>, unusable |-> <<>>, api |-> "none",
   posts |-> 0, said |-> <<>>, speech |-> "none"]

RECURSIVE Balance(_)
Balance(events) ==
  IF events = <<>> THEN 0
  ELSE Balance(Tail(events))
       + (IF Head(events).e = "open" THEN 1
          ELSE IF Head(events).e = "close" THEN 0 - 1 ELSE 0)

Init ==
  /\ driver \in {"main", "script", "client"}
  /\ platform \in (IF driver = "script" THEN Platforms ELSE {"unused"})
  /\ names \in Hosts
  /\ pc = "new"
  /\ voice = FALSE
  /\ microphone = MicUnset
  /\ validated = FALSE
  /\ health = "none"
  /\ valid_sources = <<>>
  /\ handles = 0
  /\ last = NoStep

\* main(): run_interactive only when setup_audio_source returned True; an
\* exception leaving a call ends main, and returns to a client.
AfterSetup(ret) ==
  IF driver = "main"
  THEN CASE ret = "true" -> "loop"
         [] ret = "false" -> "exit"
         [] ret = "raise" -> "abort"
  ELSE "idle"

AfterLoop(ret) ==
  IF driver = "client" THEN "idle"
  ELSE IF ret = "raise" THEN "abort" ELSE "exit"

\* GPT4AllVoiceAssistant.__init__: the speech engine, then the health check.
Construct ==
  /\ pc = "new"
  /\ driver \in {"main", "client"}
  /\ \E engineOk \in BOOLEAN, h \in HealthOutcomes :
       LET r == IF engineOk THEN CheckServerConnection(h) ELSE "raise"
       IN  /\ health' = IF engineOk THEN h ELSE "none"
           /\ pc' = IF r = "raise" THEN "abort"
                    ELSE IF driver = "main" THEN "menu" ELSE "idle"
           /\ last' = [NoStep EXCEPT !.op = "construct", !.ret = r]
  /\ UNCHANGED <<driver, platform, names, voice, microphone, validated,
                 valid_sources, handles>>

\* GPT4AllSpeechModule.__init__ and the entry into the typed loop.
ConstructScript ==
  /\ pc = "new"
  /\ driver = "script"
  /\ \E h \in HealthOutcomes :
       LET r == CheckServerConnection(h)
       IN  /\ health' = h
           /\ pc' = IF r = "raise" THEN "abort" ELSE "loop"
           /\ last' = [NoStep EXCEPT !.op = "construct", !.ret = r]
  /\ UNCHANGED <<driver, platform, names, voice, microphone, validated,
                 valid_sources, handles>>

ProbeOutcomes == [0..(Len(names) - 1) -> BasicOutcomes]

\* Variant: blanks around the typed choice are ignored.
MenuBranchStripped(choice) ==
  CASE Strip(choice) = <<"1">> -> "list"
    [] Strip(choice) = <<"2">> -> "find"
    [] Strip(choice) = <<"3">> -> "test"
    [] Strip(choice) = <<"4">> -> "select"
    [] Strip(choice) = <<"5">> -> "exit"
    [] OTHER -> "none"

\* The if/elif chain of setup_audio_source: the typed text is compared as
\* it is with "1" to "5"; any other text matches no branch.
MenuBranch(choice) ==
  CASE choice = <<"1">> -> "list"
    [] choice = <<"2">> -> "find"
    [] choice = <<"3">> -> "test"
    [] choice = <<"4">> -> "select"
    [] choice = <<"5">> -> "exit"
    [] OTHER -> "none"

\* A pass of the menu loop that neither selects nor returns.
MenuPass(step, nextPc, ret) ==
  /\ last' = step
  /\ handles' = handles + Balance(step.events)
  /\ pc' = IF ret = "none" THEN nextPc ELSE AfterSetup(ret)

\* Option 1: valid_sources = self.get_valid_audio_sources(), no try.
ChooseList ==
  /\ pc = "menu"
  /\ \E choice \in {c \in Choices : MenuBranch(c) = "list"} :
     \E enumOk \in BOOLEAN :
     \E outcomes \in (IF enumOk THEN ProbeOutcomes ELSE {[k \in 0..(Len(names) - 1) |-> "ok"]}) :
       LET r == GetValidAudioSources(names, enumOk, outcomes)
           ret == IF r.raised THEN "raise" ELSE "none"
       IN  /\ MenuPass([NoStep EXCEPT !.op = "menu", !.choice = choice,
                          !.ret = ret, !.events = r.events,
                          !.probed = r.valid, !.unusable = r.unusable],
                       "menu", ret)
           /\ valid_sources' = IF r.raised THEN valid_sources ELSE r.valid
  /\ UNCHANGED <<driver, platform, names, voice, microphone, validated, health>>

\* Option 2: self.find_stereo_mix(), no try.
ChooseFind ==
  /\ pc = "menu"
  /\ \E choice \in {c \in Choices : MenuBranch(c) = "find"} :
     \E enumOk \in BOOLEAN :
       LET r == FindStereoMix(names, enumOk)
           ret == IF r.raised THEN "raise" ELSE "none"
       IN  MenuPass([NoStep EXCEPT !.op = "menu", !.choice = choice,
                       !.ret = ret, !.probed = r.found],
                    "menu", ret)
  /\ UNCHANGED <<driver, platform, names, voice, microphone, validated, health,
                 valid_sources>>

\* Options 3 and 4 up to the index prompt: the valid sources are probed
\* first; option 3 catches only ValueError, option 4 every Exception.
ChooseTest ==
  /\ pc = "menu"
  /\ \E choice \in {c \in Choices : MenuBranch(c) = "test"} :
     \E enumOk \in BOOLEAN :
     \E outcomes \in (IF enumOk THEN ProbeOutcomes ELSE {[k \in 0..(Len(names) - 1) |-> "ok"]}) :
       LET r == GetValidAudioSources(names, enumOk, outcomes)
           ret == IF r.raised THEN "raise" ELSE "none"
       IN  /\ MenuPass([NoStep EXCEPT !.op = "menu", !.choice = choice,
                          !.ret = ret, !.events = r.events,
                          !.probed = r.valid, !.unusable = r.unusable,
                          !.out = IF ~r.raised /\ r.valid = <<>>
                                  THEN <<"no_valid_sources">> ELSE <<>>],
                       IF r.valid = <<>> THEN "menu" ELSE "ask_test", ret)
           /\ valid_sources' = IF r.raised THEN valid_sources ELSE r.valid
  /\ UNCHANGED <<driver, platform, names, voice, microphone, validated, health>>

ChooseSelect ==
  /\ pc = "menu"
  /\ \E choice \in {c \in Choices : MenuBranch(c) = "select"} :
     \E enumOk \in BOOLEAN :
     \E outcomes \in (IF enumOk THEN ProbeOutcomes ELSE {[k \in 0..(Len(names) - 1) |-> "ok"]}) :
       LET r == GetValidAudioSources(names, enumOk, outcomes)
       IN  /\ MenuPass([NoStep EXCEPT !.op = "menu", !.choice = choice,
                          !.events = r.events,
                          !.probed = r.valid, !.unusable = r.unusable,
                          !.out = IF r.raised THEN <<"error_setting_source">>
                                  ELSE IF r.valid = <<>>
                                  THEN <<"no_valid_sources">> ELSE <<>>],
                       IF r.valid = <<>> THEN "menu" ELSE "ask_select", "none")
           /\ valid_sources' = IF r.raised THEN valid_sources ELSE r.valid
  /\ UNCHANGED <<driver, platform, names, voice, microphone, validated, health>>

\* Option 3 after the index prompt.
EnterTestIndex ==
  /\ pc = "ask_test"
  /\ \E typed \in IndexInputs :
     \E enumFail \in (IF ReadIndex(valid_sources, typed).ok THEN 0..2 ELSE {0}) :
     \E outcome \in (IF ReadIndex(valid_sources, typed).ok /\ enumFail = 0
                     THEN ExtOutcomes ELSE {"text"}) :
       LET r == TestOption(names, valid_sources, typed, enumFail, outcome)
       IN  MenuPass([NoStep EXCEPT !.op = "test_index", !.typed = typed,
                       !.index = r.index, !.ret = r.ret, !.tests = r.tests,
                       !.out = r.out, !.events = r.events],
                    "menu", r.ret)
  /\ valid_sources' = <<>>
  /\ UNCHANGED <<driver, platform, names, voice, microphone, validated, health>>

\* Option 4 after the index prompt.
EnterSelectIndex ==
  /\ pc = "ask_select"
  /\ \E typed \in IndexInputs :
     \E ctorOk \in (IF ReadIndex(valid_sources, typed).ok THEN BOOLEAN ELSE {TRUE}) :
     \E enumFail \in (IF ReadIndex(valid_sources, typed).ok /\ ctorOk
                      THEN 0..3 ELSE {0}) :
     \E outcome \in (IF ReadIndex(valid_sources, typed).ok /\ ctorOk /\ enumFail = 0
                     THEN ExtOutcomes ELSE {"text"}) :
       LET r == SelectOption(names, microphone, validated, valid_sources,
                             typed, ctorOk, enumFail, outcome)
       IN  /\ MenuPass([NoStep EXCEPT !.op = "select_index", !.typed = typed,
                          !.index = r.index, !.ret = r.ret, !.tests = r.tests,
                          !.out = r.out, !.events = r.events],
                       "menu", r.ret)
           /\ microphone' = r.mic
           /\ validated' = r.validated
  /\ valid_sources' = <<>>
  /\ UNCHANGED <<driver, platform, names, voice, health>>

\* Option 5: return False.
ChooseExit ==
  /\ pc = "menu"
  /\ \E choice \in {c \in Choices : MenuBranch(c) = "exit"} :
       MenuPass([NoStep EXCEPT !.op = "menu", !.choice = choice,
                   !.ret = "false"], "menu", "false")
  /\ UNCHANGED <<driver, platform, names, voice, microphone, validated, health,
                 valid_sources>>

\* Any other text at the menu prompt matches no branch.
ChooseOther ==
  /\ pc = "menu"
  /\ \E choice \in {c \in Choices : MenuBranch(c) = "none"} :
       MenuPass([NoStep EXCEPT !.op = "menu", !.choice = choice],
                "menu", "none")
  /\ UNCHANGED <<driver, platform, names, voice, microphone, validated, health,
                 valid_sources>>

\* Variant: an empty transcript is handled like any other input.
EmptyInputAnswered(user_input) == FALSE

\* `if not user_input: continue` of the voice branch (lines 302-303).
EmptyInput(user_input) == user_input = <<>>

\* One cycle of run_interactive(voice_input=True): listen, then respond.
\* An exception of listen or of generate_response is caught by the loop.
VoiceTurn ==
  /\ pc = "loop"
  /\ driver # "script"
  /\ voice
  /\ \E defaultOk \in (IF microphone = MicUnset THEN BOOLEAN ELSE {TRUE}) :
     \E outcome \in (IF defaultOk THEN ExtOutcomes ELSE {"text"}) :
     \E engineOk \in (IF defaultOk /\ outcome = "text" THEN BOOLEAN ELSE {TRUE}) :
     \E heard \in (IF outcome = "text" THEN Utterances ELSE {<<>>}) :
       LET l == Listen(microphone, defaultOk, outcome, heard)
           asks == l.ret = "text" /\ ~EmptyInput(l.text)
       IN  \E api \in (IF asks /\ ~IsQuit(l.text) THEN ApiOutcomes ELSE {"none"}) :
             LET r == IF asks THEN Respond(l.text, api, engineOk)
                      ELSE [done |-> FALSE, posts |-> 0, said |-> <<>>,
                            out |-> IF l.ret = "raise" THEN <<"Error">> ELSE <<>>,
                            speech |-> "none"]
             IN  /\ last' = [NoStep EXCEPT !.op = "voice_turn",
                               !.ret = IF r.done THEN "break" ELSE "continue",
                               !.text = l.text, !.events = l.events,
                               !.out = <<l.diag>> \o r.out, !.api = api,
                               !.posts = r.posts, !.said = r.said,
                               !.speech = r.speech]
                 /\ microphone' = l.mic
                 /\ handles' = handles + Balance(l.events)
                 /\ pc' = IF r.done THEN AfterLoop("none") ELSE "loop"
  /\ UNCHANGED <<driver, platform, names, voice, validated, health,
                 valid_sources>>

\* One cycle of run_interactive(voice_input=False): input("You: ").
TypedTurn ==
  /\ pc = "loop"
  /\ driver # "script"
  /\ ~voice
  /\ \E typed \in Utterances \cup {<<>>}, engineOk \in BOOLEAN :
     \E api \in (IF IsQuit(typed) THEN {"none"} ELSE ApiOutcomes) :
       LET r == Respond(typed, api, engineOk)
       IN  /\ last' = [NoStep EXCEPT !.op = "typed_turn",
                         !.ret = IF r.done THEN "break" ELSE "continue",
                         !.typed = typed, !.text = typed, !.out = r.out,
                         !.api = api, !.posts = r.posts, !.said = r.said,
                         !.speech = r.speech]
           /\ pc' = IF r.done THEN AfterLoop("none") ELSE "loop"
  /\ UNCHANGED <<driver, platform, names, voice, microphone, validated, health, valid_sources, handles>>

\* One cycle of the loop of gpt4all_speech.py.
ScriptTurn ==
  /\ pc = "loop"
  /\ driver = "script"
  /\ \E typed \in Utterances \cup {<<>>} :
     \E api \in (IF IsQuit(typed) THEN {"none"} ELSE ApiOutcomes) :
     \E speech \in (IF api = "200" THEN SpeechOutcomes(platform) ELSE {"ok"}) :
       LET r == ScriptRespond(typed, api, platform, speech)
       IN  /\ last' = [NoStep EXCEPT !.op = "script_turn",
                         !.ret = IF r.done THEN "break" ELSE "continue",
                         !.typed = typed, !.text = typed, !.out = r.out,
                         !.api = api, !.posts = r.posts, !.said = r.said,
                         !.speech = r.speech]
           /\ pc' = IF r.done THEN AfterLoop("none") ELSE "loop"
  /\ UNCHANGED <<driver, platform, names, voice, microphone, validated, health, valid_sources, handles>>

\* ------------------------------------------- calls made by a client

CallSetup ==
  /\ pc = "idle"
  /\ pc' = "menu"
  /\ valid_sources' = <<>>
  /\ last' = [NoStep EXCEPT !.op = "call_setup"]
  /\ UNCHANGED <<driver, platform, names, voice, microphone, validated, health, handles>>

CallRunInteractive ==
  /\ pc = "idle"
  /\ pc' = "loop"
  /\ voice' \in BOOLEAN
  /\ last' = [NoStep EXCEPT !.op = "call_run_interactive"]
  /\ UNCHANGED <<driver, platform, names, microphone, validated, health,
                 valid_sources, handles>>

CallTestAudioSource ==
  /\ pc = "idle"
  /\ \E device_index \in TestIndices, enumFail \in 0..2 :
     \E outcome \in (IF enumFail = 0 /\ 0 <= device_index /\ device_index < Len(names)
                     THEN ExtOutcomes ELSE {"text"}) :
       LET t == TestAudioSource(names, device_index, enumFail, outcome)
       IN  /\ last' = [NoStep EXCEPT !.op = "test_audio_source",
                         !.index = device_index, !.ret = t.ret,
                         !.tests = << [index |-> device_index, ret |-> t.ret,
                                        met |-> t.met, diag |-> t.diag] >>,
                         !.out = <<t.diag>>, !.events = t.events]
           /\ handles' = handles + Balance(t.events)
  /\ UNCHANGED <<driver, platform, names, pc, voice, microphone, validated, health, valid_sources>>

CallListen ==
  /\ pc = "idle"
  /\ \E defaultOk \in (IF microphone = MicUnset THEN BOOLEAN ELSE {TRUE}) :
     \E outcome \in (IF defaultOk THEN ExtOutcomes ELSE {"text"}) :
     \E heard \in (IF outcome = "text" THEN Utterances ELSE {<<>>}) :
       LET l == Listen(microphone, defaultOk, outcome, heard)
       IN  /\ last' = [NoStep EXCEPT !.op = "listen", !.ret = l.ret,
                         !.text = l.text, !.out = <<l.diag>>,
                         !.events = l.events]
           /\ microphone' = l.mic
           /\ handles' = handles + Balance(l.events)
  /\ UNCHANGED <<driver, platform, names, pc, voice, validated, health,
                 valid_sources>>

CallGetValidAudioSources ==
  /\ pc = "idle"
  /\ \E enumOk \in BOOLEAN :
     \E outcomes \in (IF enumOk THEN ProbeOutcomes ELSE {[k \in 0..(Len(names) - 1) |-> "ok"]}) :
       LET r == GetValidAudioSources(names, enumOk, outcomes)
       IN  /\ last' = [NoStep EXCEPT !.op = "get_valid_audio_sources",
                         !.ret = IF r.raised THEN "raise" ELSE "list",
                         !.events = r.events, !.probed = r.valid,
                         !.unusable = r.unusable]
           /\ handles' = handles + Balance(r.events)
  /\ UNCHANGED <<driver, platform, names, pc, voice, microphone, validated, health, valid_sources>>

CallListAllAudioSources ==
  /\ pc = "idle"
  /\ \E enumOk \in BOOLEAN :
     \E outcomes \in (IF enumOk THEN ProbeOutcomes ELSE {[k \in 0..(Len(names) - 1) |-> "ok"]}) :
       LET r == ListAllAudioSources(names, enumOk, outcomes)
       IN  /\ last' = [NoStep EXCEPT !.op = "list_all_audio_sources",
                         !.ret = IF r.raised THEN "raise" ELSE "none",
                         !.events = r.events, !.probed = r.valid,
                         !.unusable = r.unusable]
           /\ handles' = handles + Balance(r.events)
  /\ UNCHANGED <<driver, platform, names, pc, voice, microphone, validated, health, valid_sources>>

Next ==
  \/ Construct
  \/ ConstructScript
  \/ ChooseExit
  \/ ChooseOther
  \/ ChooseList
  \/ ChooseFind
  \/ ChooseTest
  \/ ChooseSelect
  \/ EnterTestIndex
  \/ EnterSelectIndex
  \/ VoiceTurn
  \/ TypedTurn
  \/ ScriptTurn
  \/ CallSetup
  \/ CallRunInteractive
  \/ CallTestAudioSource
  \/ CallListen
  \/ CallGetValidAudioSources
  \/ CallListAllAudioSources

Spec == Init /\ [][Next]_vars

\* ----------------------------------------------------------------- claims

SetupOps == {"menu", "test_index", "select_index"}

TurnOps == {"voice_turn", "typed_turn", "script_turn"}

\* C1: setup_audio_source returns True only in an option-4 pass whose
\* test_audio_source, run on the index typed in that pass, returned True;
\* when that test returns False the call does not return and the menu is
\* presented again.
C1_ConfirmedOnlyAfterProbe ==
  /\ (last.op \in SetupOps /\ last.ret = "true") =>
       /\ last.op = "select_index"
       /\ ParseInt(last.typed).ok
       /\ Len(last.tests) = 1
       /\ last.tests[1].index = ParseInt(last.typed).value
       /\ last.tests[1].ret = "true"
       /\ pc = AfterSetup("true")
  /\ (last.op = "select_index" /\ last.tests # <<>>
        /\ last.tests[1].ret = "false") =>
       (last.ret = "none" /\ pc = "menu")

C1_Witness ==
  /\ driver = "main"
  /\ last.op = "select_index"
  /\ last.ret = "true"
  /\ pc = "loop"

\* C2: the device a capture of listen opens is the default device, or a
\* device whose index passed test_audio_source in the pass that selected it.
C2_ListenUsesValidatedOrDefault ==
  (last.op \in {"listen", "voice_turn"} /\ last.events # <<>>) =>
    \/ last.events[1].dev = MicDefault
    \/ (last.events[1].dev.kind = "index" /\ validated)

\* C3: a pass that takes option 5 returns False, leaves no selected
\* microphone on the assistant, and main does not enter run_interactive.
C3_CancelYieldsNoSource ==
  (last.op = "menu" /\ last.choice = <<"5">>) =>
    /\ last.ret = "false"
    /\ microphone = MicUnset
    /\ pc # "loop"

InvalidIndexText(typed) ==
  \/ ~ParseInt(typed).ok
  \/ ParseInt(typed).value < 0
  \/ ParseInt(typed).value >= Len(names)

\* C4: an index answer that is not a number, or is a number outside
\* [0, deviceCount), is rejected by options 3 and 4: test_audio_source is
\* not run, self.microphone is unchanged, nothing is raised and the menu is
\* presented again.
C4_BadIndexRejected ==
  [][(pc \in {"ask_test", "ask_select"} /\ InvalidIndexText(last'.typed)) =>
       /\ last'.tests = <<>>
       /\ last'.ret = "none"
       /\ microphone' = microphone
       /\ pc' = "menu"]_vars

C4_Witness ==
  /\ last.op = "select_index"
  /\ ParseInt(last.typed).ok
  /\ ParseInt(last.typed).value < 0
  /\ pc = "menu"

\* C5: a run of test_audio_source that reaches the device reports "no
\* audio" and False exactly when listen timed out, "unrecognized" and False
\* exactly when transcription found no match, and the recognized text and
\* True exactly when transcription yielded text.
C5_ThreeDistinctOutcomes ==
  \A k \in 1..Len(last.tests) :
    LET t == last.tests[k]
    IN  /\ (t.met = "listen_timeout") <=> (t.diag = "no_audio")
        /\ (t.met = "unknown_value") <=> (t.diag = "unrecognized")
        /\ (t.met = "text") <=> (t.diag = "recognized")
        /\ (t.ret = "true") <=> (t.met = "text")
        /\ t.met \in {"listen_timeout", "unknown_value"} => t.ret = "false"

C5_Witness ==
  /\ last.op = "test_audio_source"
  /\ last.tests[1].met = "listen_timeout"
  /\ last.tests[1].diag = "no_audio"

\* C6: test_audio_source returns a boolean for every integer index and every
\* failure of open, calibrate, listen or transcribe (the enumeration taken
\* to succeed), and get_valid_audio_sources records every device that fails
\* its basic probe as unusable without raising.
C6_ProbeAlwaysReturns ==
  /\ (last.op = "test_audio_source" /\ last.out # <<"enumeration">>) =>
       last.ret \in {"true", "false"}
  /\ (last.op = "get_valid_audio_sources" /\ last.ret # "raise") =>
       Len(last.probed) + Len(last.unusable) = Len(names)

RECURSIVE Scoped(_, _)
Scoped(events, open) ==
  IF events = <<>> THEN open = 0
  ELSE LET n == open + Balance(<<Head(events)>>)
       IN  n \in {0, 1} /\ Scoped(Tail(events), n)

\* C7: every operation that opens a device handle releases it before it
\* returns, on every path; no handle is held between two operations and at
\* most one is open at any time.
C7_HandlesReleased ==
  /\ handles = 0
  /\ Scoped(last.events, 0)

C7_Witness ==
  /\ last.op \in {"listen", "voice_turn", "test_audio_source"}
  /\ \E k \in 1..Len(last.events) : last.events[k].e = "raise"
  /\ last.events[Len(last.events)].e = "close"

\* C8: the menu, the index prompts and the session loops are reached only
\* after a health check that answered 200; any other answer, or a failed
\* request, ends the program in the constructor.
C8_HealthGate ==
  /\ pc \in {"menu", "ask_test", "ask_select", "loop", "idle"} => health = "200"
  /\ health \notin {"none", "200"} => (pc = "abort" /\ last.op = "construct")

C8_Witness ==
  /\ driver = "main"
  /\ health = "500"
  /\ pc = "abort"

\* C9: a turn whose completion request fails (non-200, no connection,
\* unusable body) reports the error, speaks nothing and leaves the loop
\* running, in run_interactive and in the loop of gpt4all_speech.py.
C9_TurnFailureContained ==
  (last.op \in TurnOps /\ last.api \notin {"none", "200"}) =>
    /\ last.posts = 1
    /\ last.said = <<>>
    /\ InSeq("Error", last.out)
    /\ last.ret = "continue"
    /\ pc = "loop"

C9_Witness ==
  /\ last.op = "voice_turn"
  /\ last.api = "500"
  /\ pc = "loop"

\* C10: in both session loops an input that equals "quit", "exit" or "bye"
\* ignoring case ends the loop, sends no completion request and has the
\* farewell spoken through speech synthesis; no other input ends the loop.
C10_QuitSpeaksFarewell ==
  last.op \in TurnOps =>
    /\ (last.text # <<>> /\ Lower(last.text) \in QuitWords) =>
         /\ last.ret = "break"
         /\ last.posts = 0
         /\ last.said = <<"Goodbye!">>
    /\ last.ret = "break" => Lower(last.text) \in QuitWords

\* C11: a turn in which speech synthesis or playback fails logs the failure,
\* speak returns without raising, and the loop goes on to the next turn
\* (or ends, when the failed utterance was the farewell), in
\* run_interactive and in the loop of gpt4all_speech.py.
SpeechLogs == {"speak_failed", "tts_failed", "play_failed"}

C11_SpeechFailureSwallowed ==
  (last.op \in TurnOps /\ last.speech \notin {"none", "ok"}) =>
    /\ \E k \in 1..Len(last.out) : last.out[k] \in SpeechLogs
    /\ ~InSeq("Error", last.out)
    /\ pc \in {"loop", "exit", "idle"}
    /\ last.ret = "continue" => pc = "loop"

\* C12: find_stereo_mix returns, in enumeration order and without
\* repetition, the (index, name) pair of every enumerated device whose name
\* holds one of the aliases ignoring case, and no other pair; on the host
\* ["Built-in Mic", "Stereo Mix"] it returns [(1, "Stereo Mix")].
FoundStep ==
  last.op = "menu" /\ last.choice = <<"2">> /\ last.ret = "none"

HoldsAlias(name) ==
  \E a \in 1..Len(potential_sources) :
    \E k \in 0..(Len(name) - Len(potential_sources[a])) :
      Lower(SubSeq(name, k + 1, k + Len(potential_sources[a])))
        = Lower(potential_sources[a])

C12_CapitalsWitness ==
  /\ FoundStep
  /\ names = <<DeviceNames[4]>>
  /\ last.probed = << <<0, DeviceNames[4]>> >>

\* C13: no pass of setup_audio_source ends with an exception: whatever the
\* devices and the enumeration do under options 1 to 4, the pass either
\* returns True or False or presents the menu again.
C13_SetupNeverRaises ==
  last.op \in SetupOps =>
    /\ last.ret \in {"none", "true", "false"}
    /\ pc # "abort"

\* C14: a menu pass whose typed choice is none of "1" to "5" does nothing:
\* no enumeration, probe or selection, the microphone and the open handles
\* as before, nothing raised, and the menu is presented again.
MenuDigits == {<<"1">>, <<"2">>, <<"3">>, <<"4">>, <<"5">>}

C14_OtherChoiceNoOp ==
  [][(pc = "menu" /\ last'.op = "menu" /\ last'.choice \notin MenuDigits) =>
       /\ last'.events = <<>>
       /\ last'.tests = <<>>
       /\ last'.probed = <<>>
       /\ last'.unusable = <<>>
       /\ last'.ret = "none"
       /\ microphone' = microphone
       /\ validated' = validated
       /\ handles' = handles
       /\ valid_sources' = valid_sources
       /\ pc' = "menu"]_vars

C14_Witness ==
  /\ last.op = "menu"
  /\ last.choice = <<" ", "4">>
  /\ pc = "menu"

\* C15: a voice cycle in which listen yields the empty string (timeout, no
\* match, transcription service error, device error) sends no completion
\* request, speaks nothing, and leaves the loop ready for the next capture.
ListenFailures == {"no_speech", "not_understood", "request_failed", "listen_error"}

C15_EmptyListenSkipsTurn ==
  (last.op = "voice_turn" /\ last.out[1] \in ListenFailures) =>
    /\ last.text = <<>>
    /\ last.posts = 0
    /\ last.api = "none"
    /\ last.said = <<>>
    /\ last.out = <<last.out[1]>>
    /\ last.ret = "continue"
    /\ pc = "loop"

C15_Witness ==
  /\ last.op = "voice_turn"
  /\ last.out = <<"no_speech">>
  /\ last.events # <<>>
  /\ pc = "loop"

\* C16: inside the session loop a capture cycle never replaces a microphone
\* that is set: the default device is installed only when none is set, and
\* every capture of the cycle, whatever its outcome, is made on the
\* microphone the assistant holds afterwards; a typed cycle leaves it alone.
C16_SourceFixedInLoop ==
  [][(pc = "loop" /\ last'.op \in {"voice_turn", "typed_turn"}) =>
       /\ microphone # MicUnset => microphone' = microphone
       /\ microphone = MicUnset => microphone' \in {MicUnset, MicDefault}
       /\ last'.op = "typed_turn" => microphone' = microphone
       /\ \A k \in 1..Len(last'.events) : last'.events[k].dev = microphone'
       /\ (microphone' = MicUnset) => last'.events = <<>>]_vars

C16_Witness ==
  /\ last.op = "voice_turn"
  /\ microphone.kind = "index"
  /\ last.events # <<>>
  /\ last.out = <<"no_speech">>
  /\ pc = "loop"

C16_DefaultWitness ==
  /\ last.op = "voice_turn"
  /\ microphone = MicDefault
  /\ last.events # <<>>
====
